---- MODULE Spec2Model ----
(***************************************************************************)
(* Model of the installer steps of claude-codepro:                         *)
(*   installer/steps/github_auth.py        (GitHubAuthStep)                *)
(*   installer/steps/license_activation.py (LicenseActivationStep)         *)
(*                                                                         *)
(* Text that the code parses (the .env file, credentials, stderr) is a     *)
(* sequence of one-character strings, so that strip / startswith / slicing *)
(* / split are computed as Python computes them.  Text that the code only  *)
(* emits (UI messages, argv words) is a TLA+ string.                       *)
(***************************************************************************)
EXTENDS Integers, Sequences, FiniteSets, TLC

VARIABLES environ, env_file, ctx, bins, last, calls, messages, orch

vars == <<environ, env_file, ctx, bins, last, calls, messages, orch>>

(***************************************************************************)
(* Bounds                                                                  *)
(***************************************************************************)
\* number of lines of a .env file in the resolver specification
MaxLines == 2
\* number of lines of a .env file in the step specifications
MaxStepLines == 1

(***************************************************************************)
(* Python values and string primitives                                     *)
(***************************************************************************)
\* Optional[str]: None, or a str holding a character sequence
None == [t |-> "None"]

Str(s) == [t |-> "str", v |-> s]

PyTrue == [t |-> "True"]

PyFalse == [t |-> "False"]

Bool(b) == IF b THEN PyTrue ELSE PyFalse

\* truth value of an Optional[str]: None and "" are falsy
Truthy(x) == x.t = "str" /\ x.v # <<>>

\* characters removed by str.strip()
IsSpace(c) == c \in {" ", "\t", "\n", "\r"}

RECURSIVE LStrip(_)
LStrip(s) == IF s # <<>> /\ IsSpace(Head(s)) THEN LStrip(Tail(s)) ELSE s

RECURSIVE RStrip(_)
RStrip(s) ==
  IF s # <<>> /\ IsSpace(s[Len(s)]) THEN RStrip(SubSeq(s, 1, Len(s) - 1)) ELSE s

\* a plausible slip: lstrip() where strip() was meant
Strip_LeftOnly(s) == LStrip(s)

\* str.strip()
Strip(s) == RStrip(LStrip(s))

\* str.startswith(p)
StartsWith(s, p) == Len(s) >= Len(p) /\ SubSeq(s, 1, Len(p)) = p

\* s[n:]
SliceFrom(s, n) == SubSeq(s, n + 1, Len(s))

\* index of the first occurrence of character c in s, 0 when there is none
RECURSIVE Find(_, _, _)
Find(s, c, i) ==
  IF i > Len(s) THEN 0 ELSE IF s[i] = c THEN i ELSE Find(s, c, i + 1)

\* str.split(c): the pieces between the occurrences of c (always >= 1 piece)
RECURSIVE Split(_, _)
Split(s, c) ==
  LET i == Find(s, c, 1)
  IN  IF i = 0 THEN <<s>>
      ELSE <<SubSeq(s, 1, i - 1)>> \o Split(SubSeq(s, i + 1, Len(s)), c)

\* characters of a text as one TLA+ string (used inside f-strings)
RECURSIVE Join(_)
Join(s) == IF s = <<>> THEN "" ELSE Head(s) \o Join(Tail(s))

(***************************************************************************)
(* Credential resolution                                                   *)
(***************************************************************************)
GH_TOKEN == <<"G", "H", "_", "T", "O", "K", "E", "N">>

LICENSE_KEY_ENV_VAR ==
  <<"C", "L", "A", "U", "D", "E", "_", "C", "O", "D", "E", "P", "R", "O", "_",
    "L", "I", "C", "E", "N", "S", "E", "_", "K", "E", "Y">>

\* os.environ.get(name): the value, or None when the variable is unset
EnvironGet(env, name) == env[name]

\* a plausible slip: the prefix tested is the key without the equals sign
RECURSIVE ScanGhToken_NoEquals(_)
ScanGhToken_NoEquals(lines) ==
  IF lines = <<>> THEN None
  ELSE LET line == Strip(Head(lines))
       IN  IF StartsWith(line, GH_TOKEN)
              /\ Strip(SliceFrom(line, Len(GH_TOKEN \o <<"=">>))) # <<>>
           THEN Str(Strip(SliceFrom(line, Len(GH_TOKEN \o <<"=">>))))
           ELSE ScanGhToken_NoEquals(Tail(lines))

\* the loop of get_gh_token over the lines of the file: a matching line with
\* an empty value does not end the scan
RECURSIVE ScanGhToken(_)
ScanGhToken(lines) ==
  IF lines = <<>> THEN None
  ELSE LET line == Strip(Head(lines))
       IN  IF StartsWith(line, GH_TOKEN \o <<"=">>)
           THEN LET value == Strip(SliceFrom(line, Len(GH_TOKEN \o <<"=">>)))
                IN  IF value # <<>> THEN Str(value)
                    ELSE ScanGhToken(Tail(lines))
           ELSE ScanGhToken(Tail(lines))

\* a plausible slip: the .env file is consulted before the environment
get_gh_token_FileFirst(env, file) ==
  LET fromFile == IF file.exists THEN ScanGhToken(Split(file.content, "\n"))
                  ELSE None
  IN  IF Truthy(fromFile) THEN fromFile
      ELSE IF Truthy(EnvironGet(env, Join(GH_TOKEN)))
           THEN EnvironGet(env, Join(GH_TOKEN)) ELSE None

get_gh_token(env, file) ==
  LET token == EnvironGet(env, Join(GH_TOKEN))
  IN  IF Truthy(token) THEN token
      ELSE IF ~file.exists THEN None
      ELSE ScanGhToken(Split(file.content, "\n"))

\* a plausible slip: a matching line with an empty value does not end the scan
RECURSIVE ScanLicenseKey_SkipEmpty(_)
ScanLicenseKey_SkipEmpty(lines) ==
  IF lines = <<>> THEN None
  ELSE LET line == Strip(Head(lines))
       IN  IF StartsWith(line, LICENSE_KEY_ENV_VAR \o <<"=">>)
              /\ Strip(SliceFrom(line, Len(LICENSE_KEY_ENV_VAR) + 1)) # <<>>
           THEN Str(Strip(SliceFrom(line, Len(LICENSE_KEY_ENV_VAR) + 1)))
           ELSE ScanLicenseKey_SkipEmpty(Tail(lines))

\* the loop of get_license_key_from_env_file: the first matching line decides
RECURSIVE ScanLicenseKey(_)
ScanLicenseKey(lines) ==
  IF lines = <<>> THEN None
  ELSE LET line == Strip(Head(lines))
       IN  IF StartsWith(line, LICENSE_KEY_ENV_VAR \o <<"=">>)
           THEN LET value == Strip(SliceFrom(line, Len(LICENSE_KEY_ENV_VAR) + 1))
                IN  IF value # <<>> THEN Str(value) ELSE None
           ELSE ScanLicenseKey(Tail(lines))

get_license_key_from_env_file(file) ==
  IF ~file.exists THEN None
  ELSE ScanLicenseKey(Split(file.content, "\n"))

\* a plausible slip: the .env file is consulted before the environment
get_license_key_FileFirst(env, file) ==
  LET fromFile == get_license_key_from_env_file(file)
  IN  IF Truthy(fromFile) THEN fromFile
      ELSE IF Truthy(EnvironGet(env, Join(LICENSE_KEY_ENV_VAR)))
           THEN EnvironGet(env, Join(LICENSE_KEY_ENV_VAR)) ELSE None

get_license_key(env, file) ==
  LET env_value == EnvironGet(env, Join(LICENSE_KEY_ENV_VAR))
  IN  IF Truthy(env_value) THEN env_value
      ELSE get_license_key_from_env_file(file)

(***************************************************************************)
(* Inputs: environments and .env files                                     *)
(***************************************************************************)
EnvNames == {Join(GH_TOKEN), Join(LICENSE_KEY_ENV_VAR)}

\* a variable is unset, set to the empty string, or set to a value
EnvValues == {None, Str(<<>>), Str(<<"e", "1">>)}

Environs == [EnvNames -> EnvValues]

\* the shapes of a line that mentions key k
KeyLines(k) ==
  { k \o <<"=", "a">>,
    <<" ", " ">> \o k \o <<"=", "b", " ">>,
    k \o <<"=">>,
    k \o <<"=", " ", "a", "\r">>,
    k \o <<" ", "=", " ", "a">>,
    <<"#">> \o k \o <<"=", "a">> }

ResolveLines == KeyLines(GH_TOKEN) \cup KeyLines(LICENSE_KEY_ENV_VAR) \cup {<<>>}

StepLines == { GH_TOKEN \o <<"=", "a">>, LICENSE_KEY_ENV_VAR \o <<"=", "b">> }

SeqsUpTo(S, n) == UNION { [1..k -> S] : k \in 0..n }

\* the text of a file made of the given lines, each ended by a newline
RECURSIVE Unlines(_)
Unlines(ls) ==
  IF ls = <<>> THEN <<>> ELSE Head(ls) \o <<"\n">> \o Unlines(Tail(ls))

MissingFile == [exists |-> FALSE, content |-> <<>>]

File(c) == [exists |-> TRUE, content |-> c]

ResolveFiles ==
  {MissingFile} \cup { File(Unlines(ls)) : ls \in SeqsUpTo(ResolveLines, MaxLines) }

StepFiles ==
  {MissingFile} \cup { File(Unlines(ls)) : ls \in SeqsUpTo(StepLines, MaxStepLines) }

(***************************************************************************)
(* InstallContext and the file system                                      *)
(***************************************************************************)
project_dir == "/project"

\* ctx.local_repo_dir is a path or None
NoDir == "None"

PathJoin(dir, rel) == dir \o "/" \o rel

Contexts ==
  [ui : BOOLEAN, local_mode : BOOLEAN, local_repo_dir : {NoDir, "/repo"}]

\* programs that may exist: the two ccp locations and gh on the PATH
Programs ==
  { PathJoin(project_dir, ".claude/bin/ccp"), PathJoin("/repo", ".claude/bin/ccp"),
    "gh" }

Exists(b, path) == path \in b

NoEvent == [op |-> "none", raised |-> "", result |-> None]

OrchIdle == [steps |-> <<>>, i |-> 0, phase |-> "idle", ran |-> {}, skipped |-> {}]

(***************************************************************************)
(* subprocess.run and its outcomes                                         *)
(***************************************************************************)
\* the classes an exception is an instance of
Bases(e) ==
  CASE e = "TimeoutExpired"     -> {"TimeoutExpired", "SubprocessError", "Exception"}
    [] e = "SubprocessError"    -> {"SubprocessError", "Exception"}
    [] e = "FileNotFoundError"  -> {"FileNotFoundError", "OSError", "Exception"}
    [] e = "PermissionError"    -> {"PermissionError", "OSError", "Exception"}
    [] e = "OSError"            -> {"OSError", "Exception"}
    [] e = "UnicodeDecodeError" -> {"UnicodeDecodeError", "ValueError", "Exception"}
    [] e = "JSONDecodeError"    -> {"JSONDecodeError", "ValueError", "Exception"}
    [] e = "AttributeError"     -> {"AttributeError", "Exception"}
    [] OTHER                    -> {}

IsInstance(e, classes) == Bases(e) \cap classes # {}

\* a CompletedProcess, or the exception subprocess.run raised
Completed(rc, out, err) ==
  [raised |-> "", returncode |-> rc, stdout |-> out, stderr |-> err]

Raises(e) == [raised |-> e, returncode |-> 0, stdout |-> <<>>, stderr |-> <<>>]

\* what subprocess.run can raise for a program that exists: the timeout, a
\* file that cannot be executed, output that is not text, a failure inside
\* the subprocess module
RunErrors ==
  {"TimeoutExpired", "PermissionError", "OSError", "UnicodeDecodeError",
   "SubprocessError"}

\* every outcome of running a program: one that does not exist cannot start
RunOutcomes(exists, completions) ==
  IF exists THEN completions \cup { Raises(e) : e \in RunErrors }
  ELSE {Raises("FileNotFoundError")}

\* exit codes
ExitCodes == {0, 1}

\* the timeouts passed to subprocess.run
StatusTimeout == 10

ActionTimeout == 30

RunCall(argv, input, timeout, outcome) ==
  [argv |-> argv, input |-> input, timeout |-> timeout, outcome |-> outcome]

(***************************************************************************)
(* json.loads, on a text given as its sequence of lexemes                  *)
(***************************************************************************)
JsonStrings ==
  {"\"tier\"", "\"is_expired\"", "\"trial\"", "\"standard\"", "\"enterprise\"",
   "\"free\"", "\"\"", "\"no\""}

JsonLiterals == {"true", "false", "null"}

JsonNumbers == {"0", "1"}

IsScalar(tok) == tok \in JsonStrings \cup JsonLiterals \cup JsonNumbers

\* JSON lets whitespace stand between any two lexemes
RECURSIVE DropSpace(_)
DropSpace(toks) ==
  IF toks = <<>> THEN <<>>
  ELSE IF IsSpace(Head(toks)) THEN DropSpace(Tail(toks))
  ELSE <<Head(toks)>> \o DropSpace(Tail(toks))

JsonError == [error |-> TRUE, type |-> "", items |-> <<>>]

JsonValue(type, items) == [error |-> FALSE, type |-> type, items |-> items]

\* the members of an object after its opening brace: key : scalar, separated
\* by commas, up to the closing brace that ends the text
RECURSIVE ParseMembers(_, _)
ParseMembers(toks, acc) ==
  IF /\ Len(toks) >= 4
     /\ toks[1] \in JsonStrings /\ toks[2] = ":" /\ IsScalar(toks[3])
  THEN LET acc2 == Append(acc, <<toks[1], toks[3]>>)
       IN  IF Len(toks) = 4 /\ toks[4] = "}" THEN JsonValue("dict", acc2)
           ELSE IF toks[4] = "," THEN ParseMembers(SubSeq(toks, 5, Len(toks)), acc2)
           ELSE JsonError
  ELSE JsonError

TypeOfScalar(tok) ==
  IF tok \in JsonStrings THEN "str"
  ELSE IF tok \in JsonNumbers THEN "int"
  ELSE IF tok = "null" THEN "NoneType"
  ELSE "bool"

\* json.loads: the value, or JSONDecodeError
JsonLoads(text) ==
  LET toks == DropSpace(text)
  IN  IF Len(toks) = 1 /\ IsScalar(toks[1]) THEN JsonValue(TypeOfScalar(toks[1]), <<>>)
      ELSE IF toks = <<"[", "]">> THEN JsonValue("list", <<>>)
      ELSE IF toks = <<"{", "}">> THEN JsonValue("dict", <<>>)
      ELSE IF Len(toks) >= 2 /\ toks[1] = "{"
           THEN ParseMembers(SubSeq(toks, 2, Len(toks)), <<>>)
      ELSE JsonError

\* dict.get(key, default): the last member named key wins
RECURSIVE DictGet(_, _, _)
DictGet(items, key, default) ==
  IF items = <<>> THEN default
  ELSE IF items[Len(items)][1] = key THEN items[Len(items)][2]
  ELSE DictGet(SubSeq(items, 1, Len(items) - 1), key, default)

\* truth value of a JSON scalar as a Python object
TruthyJson(tok) == tok \notin {"false", "null", "0", "\"\""}

\* the texts a status query may print
Obj(members) == <<"{">> \o members \o <<"}">>

Member(k, v) == <<k, ":", " ", v>>

StatusTexts ==
  { <<>>, <<"\n">>, <<"not", " ", "licensed">>, <<"{">>,
    <<"[", "]">>, <<"null">>, <<"\"trial\"">>, <<"{", "}">> }
  \cup { Obj(Member("\"tier\"", t)) \o <<"\n">> :
           t \in {"\"trial\"", "\"standard\"", "\"enterprise\"", "\"free\"", "null"} }
  \cup { Obj(Member("\"tier\"", t) \o <<",", " ">> \o Member("\"is_expired\"", x)) :
           t \in {"\"trial\"", "\"enterprise\"", "\"free\""},
           x \in {"true", "false", "null", "1", "\"no\""} }
  \cup { Obj(Member("\"is_expired\"", "false")) }

\* the outcomes of a completed status query: text on stdout, or on stderr
StatusCompletions ==
  { Completed(0, out, <<>>) : out \in StatusTexts }
  \cup { Completed(rc, out, <<>>) :
           rc \in ExitCodes \ {0},
           out \in { <<>>, <<"not", " ", "licensed">>,
                     Obj(Member("\"tier\"", "\"trial\"")) \o <<"\n">> } }
  \cup { Completed(0, <<>>, err) :
           err \in { Obj(Member("\"tier\"", "\"standard\"")), <<"oops">> } }
  \cup { Completed(0, Obj(Member("\"tier\"", "\"trial\"")) \o <<"\n">>, <<"oops">>),
         Completed(0, <<"not", " ", "licensed">>,
                   Obj(Member("\"tier\"", "\"standard\""))) }

\* the outcomes of a completed login / activation: stderr may carry a reason
ErrTexts == { <<>>, <<" ">>, <<"b", "a", "d", " ", "k", "e", "y", "\n">> }

ActionCompletions ==
  { Completed(rc, <<>>, err) : rc \in ExitCodes, err \in ErrTexts }

\* the outcomes of a completed gh auth status
GhStatusCompletions ==
  { Completed(rc, <<>>, err) : rc \in ExitCodes, err \in { <<>>, <<"o", "k", "\n">> } }

(***************************************************************************)
(* The UI sink and the result of an operation                              *)
(***************************************************************************)
Ui(method, text) == [method |-> method, text |-> text]

\* "if ui:" around every emission: without a sink nothing is emitted
WithUi(c, msgs) == IF c.ui THEN msgs ELSE <<>>

\* an operation returns a value or raises; cs are the subprocess.run calls it
\* made and ms the UI calls it made, in order
Return(value, cs, ms) ==
  [raised |-> "", result |-> value, calls |-> cs, messages |-> ms]

Raise(e, cs, ms) == [raised |-> e, result |-> None, calls |-> cs, messages |-> ms]

(***************************************************************************)
(* installer/steps/github_auth.py                                          *)
(***************************************************************************)
\* a plausible slip: a status call that could not be made counts as success
is_gh_authenticated_ErrTrue(outcome) ==
  LET call == RunCall(<<"gh", "auth", "status">>, None, StatusTimeout, outcome)
  IN  IF outcome.raised = "" THEN Return(Bool(outcome.returncode = 0), <<call>>, <<>>)
      ELSE Return(PyTrue, <<call>>, <<>>)

is_gh_authenticated(outcome) ==
  LET call == RunCall(<<"gh", "auth", "status">>, None, StatusTimeout, outcome)
  IN  IF outcome.raised = "" THEN Return(Bool(outcome.returncode = 0), <<call>>, <<>>)
      ELSE IF IsInstance(outcome.raised, {"Exception"})
           THEN Return(PyFalse, <<call>>, <<>>)
      ELSE Raise(outcome.raised, <<call>>, <<>>)

GitHubAuthStep_check(c, outcome) == is_gh_authenticated(outcome)

\* str(e) of a caught exception: its class name stands for its message
ExcText(e) == e

\* a plausible slip: the timeout is reported by the handler of a failed login
GitHubAuthStep_login_TimeoutAsFailure(c, token, before, outcome) ==
  LET call == RunCall(<<"gh", "auth", "login", "--with-token">>, token,
                      ActionTimeout, outcome)
      error_msg == IF outcome.stderr # <<>> THEN Join(Strip(outcome.stderr))
                   ELSE "Unknown error"
  IN  IF outcome.raised = "" /\ outcome.returncode = 0
      THEN Return(None, <<call>>, before \o WithUi(c,
             <<Ui("success", "GitHub CLI authenticated successfully")>>))
      ELSE IF outcome.raised = "" \/ IsInstance(outcome.raised, {"TimeoutExpired"})
      THEN Return(None, <<call>>, before \o WithUi(c,
             <<Ui("error", "GitHub CLI authentication failed: " \o error_msg)>>))
      ELSE IF IsInstance(outcome.raised, {"FileNotFoundError"})
      THEN Return(None, <<call>>, before \o WithUi(c,
             <<Ui("error", "GitHub CLI (gh) not found. Please install it first.")>>))
      ELSE Return(None, <<call>>, before \o WithUi(c,
             <<Ui("error", "GitHub CLI authentication error: " \o ExcText(outcome.raised))>>))

\* a plausible slip: the exit code of the login is not looked at
GitHubAuthStep_login_IgnoreExit(c, token, before, outcome) ==
  LET call == RunCall(<<"gh", "auth", "login", "--with-token">>, token,
                      ActionTimeout, outcome)
  IN  IF outcome.raised = ""
      THEN Return(None, <<call>>, before \o WithUi(c,
             <<Ui("success", "GitHub CLI authenticated successfully")>>))
      ELSE IF IsInstance(outcome.raised, {"TimeoutExpired"})
      THEN Return(None, <<call>>, before \o WithUi(c,
             <<Ui("error", "GitHub CLI authentication timed out")>>))
      ELSE IF IsInstance(outcome.raised, {"FileNotFoundError"})
      THEN Return(None, <<call>>, before \o WithUi(c,
             <<Ui("error", "GitHub CLI (gh) not found. Please install it first.")>>))
      ELSE Return(None, <<call>>, before \o WithUi(c,
             <<Ui("error", "GitHub CLI authentication error: " \o ExcText(outcome.raised))>>))

\* the try block of GitHubAuthStep.run; before are the UI calls made so far
GitHubAuthStep_login(c, token, before, outcome) ==
  LET call == RunCall(<<"gh", "auth", "login", "--with-token">>, token,
                      ActionTimeout, outcome)
      error_msg == IF outcome.stderr # <<>> THEN Join(Strip(outcome.stderr))
                   ELSE "Unknown error"
  IN  IF outcome.raised = ""
      THEN IF outcome.returncode = 0
           THEN Return(None, <<call>>, before \o WithUi(c,
                  <<Ui("success", "GitHub CLI authenticated successfully")>>))
           ELSE Return(None, <<call>>, before \o WithUi(c,
                  <<Ui("error", "GitHub CLI authentication failed: " \o error_msg)>>))
      ELSE IF IsInstance(outcome.raised, {"TimeoutExpired"})
      THEN Return(None, <<call>>, before \o WithUi(c,
             <<Ui("error", "GitHub CLI authentication timed out")>>))
      ELSE IF IsInstance(outcome.raised, {"FileNotFoundError"})
      THEN Return(None, <<call>>, before \o WithUi(c,
             <<Ui("error", "GitHub CLI (gh) not found. Please install it first.")>>))
      ELSE IF IsInstance(outcome.raised, {"Exception"})
      THEN Return(None, <<call>>, before \o WithUi(c,
             <<Ui("error", "GitHub CLI authentication error: " \o ExcText(outcome.raised))>>))
      ELSE Raise(outcome.raised, <<call>>, before)

NoTokenInfo ==
  Ui("info", "Set GH_TOKEN in .env for automatic GitHub CLI authentication")

\* a plausible slip: the return after the hint is missing
GitHubAuthStep_run_NoReturn(c, env, file, outcome) ==
  LET section == WithUi(c, <<Ui("section", "GitHub CLI Authentication")>>)
      token == get_gh_token(env, file)
  IN  IF ~Truthy(token)
      THEN GitHubAuthStep_login(c, token, section \o WithUi(c, <<NoTokenInfo>>), outcome)
      ELSE GitHubAuthStep_login(c, token, section, outcome)

GitHubAuthStep_run(c, env, file, outcome) ==
  LET section == WithUi(c, <<Ui("section", "GitHub CLI Authentication")>>)
      token == get_gh_token(env, file)
  IN  IF ~Truthy(token)
      THEN Return(None, <<>>, section \o WithUi(c, <<NoTokenInfo>>))
      ELSE GitHubAuthStep_login(c, token, section, outcome)

(***************************************************************************)
(* installer/steps/license_activation.py                                   *)
(***************************************************************************)
\* a plausible slip: the override is taken without looking whether it exists
get_ccp_binary_path_NoExistsCheck(c, b) ==
  IF c.local_mode /\ c.local_repo_dir # NoDir
  THEN PathJoin(c.local_repo_dir, ".claude/bin/ccp")
  ELSE PathJoin(project_dir, ".claude/bin/ccp")

get_ccp_binary_path(c, b) ==
  LET bin_path == PathJoin(project_dir, ".claude/bin/ccp")
  IN  IF c.local_mode /\ c.local_repo_dir # NoDir
      THEN LET local_bin == PathJoin(c.local_repo_dir, ".claude/bin/ccp")
           IN  IF Exists(b, local_bin) THEN local_bin ELSE bin_path
      ELSE bin_path

RecognizedTiers == {"\"trial\"", "\"standard\"", "\"enterprise\""}

\* a plausible slip: a status without the expiry flag counts as expired
StatusVerdict_ExpiredByDefault(items) ==
  /\ DictGet(items, "\"tier\"", "null") \in RecognizedTiers
  /\ ~TruthyJson(DictGet(items, "\"is_expired\"", "true"))

\* a plausible slip: the expiry flag is not consulted
StatusVerdict_IgnoreExpiry(items) ==
  DictGet(items, "\"tier\"", "null") \in RecognizedTiers

\* data.get("tier") / data.get("is_expired", False) and the verdict on them
StatusVerdict(items) ==
  LET tier == DictGet(items, "\"tier\"", "null")
      is_expired == DictGet(items, "\"is_expired\"", "false")
  IN  tier \in RecognizedTiers /\ ~TruthyJson(is_expired)

\* the body of the try block of is_license_valid: the value it returns,
\* "fall" when it falls through to the final return, or the exception raised
\* inside it
StatusTryBody(outcome) ==
  IF outcome.raised # "" THEN [raised |-> outcome.raised, value |-> "fall"]
  ELSE IF outcome.returncode # 0 THEN [raised |-> "", value |-> "fall"]
  ELSE LET output == IF Strip(outcome.stdout) # <<>> THEN Strip(outcome.stdout)
                     ELSE Strip(outcome.stderr)
       IN  IF output = <<>> THEN [raised |-> "", value |-> "fall"]
           ELSE LET data == JsonLoads(output)
                IN  IF data.error THEN [raised |-> "JSONDecodeError", value |-> "fall"]
                    ELSE IF data.type # "dict"
                    THEN [raised |-> "AttributeError", value |-> "fall"]
                    ELSE [raised |-> "",
                          value |-> IF StatusVerdict(data.items)
                                    THEN "True" ELSE "False"]

is_license_valid(c, b, outcome) ==
  LET bin_path == get_ccp_binary_path(c, b)
      call == RunCall(<<bin_path, "status", "--json">>, None, StatusTimeout, outcome)
      body == StatusTryBody(outcome)
  IN  IF ~Exists(b, bin_path) THEN Return(PyFalse, <<>>, <<>>)
      ELSE IF body.raised # ""
      THEN IF IsInstance(body.raised, {"SubprocessError", "JSONDecodeError", "OSError"})
           THEN Return(PyFalse, <<call>>, <<>>)
           ELSE Raise(body.raised, <<call>>, <<>>)
      ELSE Return(Bool(body.value = "True"), <<call>>, <<>>)

\* a plausible slip: without a key the step is not skipped
LicenseActivationStep_check_NoKeyRuns(c, env, file, b, outcome) ==
  LET license_key == get_license_key(env, file)
      valid == is_license_valid(c, b, outcome)
  IN  IF ~Truthy(license_key) THEN Return(PyFalse, <<>>, <<>>)
      ELSE IF valid.raised # "" THEN valid
      ELSE IF valid.result = PyTrue THEN Return(PyTrue, valid.calls, <<>>)
      ELSE Return(PyFalse, valid.calls, <<>>)

LicenseActivationStep_check(c, env, file, b, outcome) ==
  LET license_key == get_license_key(env, file)
      valid == is_license_valid(c, b, outcome)
  IN  IF ~Truthy(license_key) THEN Return(PyTrue, <<>>, <<>>)
      ELSE IF valid.raised # "" THEN valid
      ELSE IF valid.result = PyTrue THEN Return(PyTrue, valid.calls, <<>>)
      ELSE Return(PyFalse, valid.calls, <<>>)

ManualHint == Ui("info", "You can activate manually later with: ccp activate <key>")

\* the try block of LicenseActivationStep.run
LicenseActivationStep_activate(c, bin_path, license_key, outcome) ==
  LET call == RunCall(<<bin_path, "activate", Join(license_key.v), "--json">>, None,
                      ActionTimeout, outcome)
      stderr == IF outcome.stderr # <<>> THEN Strip(outcome.stderr) ELSE <<>>
  IN  IF outcome.raised = ""
      THEN IF outcome.returncode = 0
           THEN Return(None, <<call>>, WithUi(c,
                  <<Ui("success", "License activated successfully from .env")>>))
           ELSE Return(None, <<call>>, WithUi(c,
                  <<Ui("warning", "License activation failed - continuing installation")>>
                  \o (IF stderr # <<>>
                      THEN <<Ui("print", "  [dim]" \o Join(stderr) \o "[/dim]")>>
                      ELSE <<>>)
                  \o <<ManualHint>>))
      ELSE IF IsInstance(outcome.raised, {"TimeoutExpired"})
      THEN Return(None, <<call>>, WithUi(c,
             <<Ui("warning", "License activation timed out - continuing installation"),
               ManualHint>>))
      ELSE IF IsInstance(outcome.raised, {"SubprocessError"})
      THEN Return(None, <<call>>, WithUi(c,
             <<Ui("warning", "License activation error: " \o ExcText(outcome.raised)),
               ManualHint>>))
      ELSE Raise(outcome.raised, <<call>>, <<>>)

\* a plausible slip: the key is read from the .env file only
LicenseActivationStep_run_FileOnly(c, env, file, b, outcome) ==
  LET license_key == get_license_key_from_env_file(file)
      bin_path == get_ccp_binary_path(c, b)
  IN  IF ~Truthy(license_key) THEN Return(None, <<>>, <<>>)
      ELSE IF ~Exists(b, bin_path)
      THEN Return(None, <<>>, WithUi(c,
             <<Ui("warning", "CCP binary not found - skipping license activation"),
               Ui("info", "License will be activated on first run")>>))
      ELSE LicenseActivationStep_activate(c, bin_path, license_key, outcome)

\* a plausible slip: the binary is not looked for before it is run
LicenseActivationStep_run_NoExistsCheck(c, env, file, b, outcome) ==
  LET license_key == get_license_key(env, file)
      bin_path == get_ccp_binary_path(c, b)
  IN  IF ~Truthy(license_key) THEN Return(None, <<>>, <<>>)
      ELSE LicenseActivationStep_activate(c, bin_path, license_key, outcome)

LicenseActivationStep_run(c, env, file, b, outcome) ==
  LET license_key == get_license_key(env, file)
      bin_path == get_ccp_binary_path(c, b)
  IN  IF ~Truthy(license_key) THEN Return(None, <<>>, <<>>)
      ELSE IF ~Exists(b, bin_path)
      THEN Return(None, <<>>, WithUi(c,
             <<Ui("warning", "CCP binary not found - skipping license activation"),
               Ui("info", "License will be activated on first run")>>))
      ELSE LicenseActivationStep_activate(c, bin_path, license_key, outcome)

(***************************************************************************)
(* The resolvers called directly                                           *)
(***************************************************************************)
Returned(name, value) == [op |-> name, raised |-> "", result |-> value]

Call_get_gh_token ==
  /\ last' = Returned("get_gh_token", get_gh_token(environ, env_file))
  /\ calls' = <<>>
  /\ messages' = <<>>
  /\ UNCHANGED <<environ, env_file, ctx, bins, orch>>

Call_get_license_key_from_env_file ==
  /\ last' = Returned("get_license_key_from_env_file",
                      get_license_key_from_env_file(env_file))
  /\ calls' = <<>>
  /\ messages' = <<>>
  /\ UNCHANGED <<environ, env_file, ctx, bins, orch>>

Call_get_license_key ==
  /\ last' = Returned("get_license_key", get_license_key(environ, env_file))
  /\ calls' = <<>>
  /\ messages' = <<>>
  /\ UNCHANGED <<environ, env_file, ctx, bins, orch>>

InitResolve ==
  /\ environ \in Environs
  /\ env_file \in ResolveFiles
  /\ ctx = [ui |-> TRUE, local_mode |-> FALSE, local_repo_dir |-> NoDir]
  /\ bins = {}
  /\ last = NoEvent
  /\ calls = <<>>
  /\ messages = <<>>
  /\ orch = OrchIdle

NextResolve ==
  \/ Call_get_gh_token
  \/ Call_get_license_key_from_env_file
  \/ Call_get_license_key

ResolveSpec == InitResolve /\ [][NextResolve]_vars

(***************************************************************************)
(* The operations of the two steps, called in any order                    *)
(***************************************************************************)
\* the event, the subprocess.run calls and the UI calls of the operation that
\* has just run; the operations leave the environment and the files alone
Observe(name, r) ==
  /\ last' = [op |-> name, raised |-> r.raised, result |-> r.result]
  /\ calls' = r.calls
  /\ messages' = r.messages
  /\ UNCHANGED <<environ, env_file, ctx, bins>>

GhOutcomes(completions) == RunOutcomes(Exists(bins, "gh"), completions)

\* A step is stateless between invocations and an operation leaves the
\* environment and the files as they are, so a call made after another call
\* does what the same call does from the initial state of the same
\* configuration: each behaviour of Spec makes one call.
Fresh == last.op = "none"

CcpOutcomes(completions) ==
  RunOutcomes(Exists(bins, get_ccp_binary_path(ctx, bins)), completions)

\* a pathlib.Path returned by an operation
Path(p) == [t |-> "Path", v |-> p]

Call_get_ccp_binary_path ==
  /\ Fresh
  /\ Observe("get_ccp_binary_path",
             Return(Path(get_ccp_binary_path(ctx, bins)), <<>>, <<>>))
  /\ UNCHANGED orch

Call_is_license_valid ==
  /\ Fresh
  /\ \E outcome \in CcpOutcomes(StatusCompletions) :
       Observe("is_license_valid", is_license_valid(ctx, bins, outcome))
  /\ UNCHANGED orch

Check_GitHubAuthStep ==
  /\ Fresh
  /\ \E outcome \in GhOutcomes(GhStatusCompletions) :
       Observe("GitHubAuthStep.check", GitHubAuthStep_check(ctx, outcome))
  /\ UNCHANGED orch

Run_GitHubAuthStep ==
  /\ Fresh
  /\ \E outcome \in GhOutcomes(ActionCompletions) :
       Observe("GitHubAuthStep.run",
               GitHubAuthStep_run(ctx, environ, env_file, outcome))
  /\ UNCHANGED orch

Check_LicenseActivationStep ==
  /\ Fresh
  /\ \E outcome \in CcpOutcomes(StatusCompletions) :
       Observe("LicenseActivationStep.check",
               LicenseActivationStep_check(ctx, environ, env_file, bins, outcome))
  /\ UNCHANGED orch

Run_LicenseActivationStep ==
  /\ Fresh
  /\ \E outcome \in CcpOutcomes(ActionCompletions) :
       Observe("LicenseActivationStep.run",
               LicenseActivationStep_run(ctx, environ, env_file, bins, outcome))
  /\ UNCHANGED orch

Init ==
  /\ environ \in Environs
  /\ env_file \in StepFiles
  /\ ctx \in Contexts
  /\ bins \in SUBSET Programs
  /\ last = NoEvent
  /\ calls = <<>>
  /\ messages = <<>>
  /\ orch = OrchIdle

Next ==
  \/ Call_get_ccp_binary_path
  \/ Call_is_license_valid
  \/ Check_GitHubAuthStep
  \/ Run_GitHubAuthStep
  \/ Check_LicenseActivationStep
  \/ Run_LicenseActivationStep

Spec == Init /\ [][Next]_vars

(***************************************************************************)
(* The orchestrator: for each step in order, check, then run unless check  *)
(* asked to skip; it keeps the steps that ran                              *)
(***************************************************************************)
StepOrders == { <<"github_auth", "license_activation">>,
                <<"license_activation", "github_auth">> }

\* the orchestrator after a check that returned r
AfterCheck(o, step, r) ==
  IF r.raised # "" THEN [o EXCEPT !.phase = "failed"]
  ELSE IF r.result = PyTrue
       THEN [o EXCEPT !.i = o.i + 1, !.skipped = o.skipped \cup {step}]
  ELSE [o EXCEPT !.phase = "run"]

\* the orchestrator after a run that returned r
AfterRun(o, step, r) ==
  IF r.raised # "" THEN [o EXCEPT !.phase = "failed"]
  ELSE [o EXCEPT !.i = o.i + 1, !.phase = "check", !.ran = o.ran \cup {step}]

AtStep(step, phase) ==
  /\ orch.phase = phase
  /\ orch.i \in 1..Len(orch.steps)
  /\ orch.steps[orch.i] = step

OrchCheckGitHub ==
  /\ AtStep("github_auth", "check")
  /\ \E outcome \in GhOutcomes(GhStatusCompletions) :
       LET r == GitHubAuthStep_check(ctx, outcome)
       IN  /\ Observe("GitHubAuthStep.check", r)
           /\ orch' = AfterCheck(orch, "github_auth", r)

OrchRunGitHub ==
  /\ AtStep("github_auth", "run")
  /\ \E outcome \in GhOutcomes(ActionCompletions) :
       LET r == GitHubAuthStep_run(ctx, environ, env_file, outcome)
       IN  /\ Observe("GitHubAuthStep.run", r)
           /\ orch' = AfterRun(orch, "github_auth", r)

OrchCheckLicense ==
  /\ AtStep("license_activation", "check")
  /\ \E outcome \in CcpOutcomes(StatusCompletions) :
       LET r == LicenseActivationStep_check(ctx, environ, env_file, bins, outcome)
       IN  /\ Observe("LicenseActivationStep.check", r)
           /\ orch' = AfterCheck(orch, "license_activation", r)

OrchRunLicense ==
  /\ AtStep("license_activation", "run")
  /\ \E outcome \in CcpOutcomes(ActionCompletions) :
       LET r == LicenseActivationStep_run(ctx, environ, env_file, bins, outcome)
       IN  /\ Observe("LicenseActivationStep.run", r)
           /\ orch' = AfterRun(orch, "license_activation", r)

InitOrch ==
  /\ environ \in Environs
  /\ env_file \in StepFiles
  /\ ctx \in { c \in Contexts : ~c.local_mode /\ c.local_repo_dir = NoDir }
  /\ bins \in SUBSET { PathJoin(project_dir, ".claude/bin/ccp"), "gh" }
  /\ last = NoEvent
  /\ calls = <<>>
  /\ messages = <<>>
  /\ \E order \in StepOrders :
       orch = [steps |-> order, i |-> 1, phase |-> "check", ran |-> {}, skipped |-> {}]

NextOrch ==
  \/ OrchCheckGitHub
  \/ OrchRunGitHub
  \/ OrchCheckLicense
  \/ OrchRunLicense

OrchSpec == InitOrch /\ [][NextOrch]_vars

(***************************************************************************)
(* An orchestrator pass during which the credential sources change between *)
(* the check of a step and its run                                         *)
(***************************************************************************)
SourcesChanged == [op |-> "sources_changed", raised |-> "", result |-> None]

\* the environment variables and the .env file are rewritten while a step
\* waits to be run; two rewritings in a row are one rewriting
ChangeSources ==
  /\ orch.phase = "run"
  /\ last # SourcesChanged
  /\ \E e \in Environs, f \in StepFiles :
       /\ <<e, f>> # <<environ, env_file>>
       /\ environ' = e
       /\ env_file' = f
  /\ last' = SourcesChanged
  /\ UNCHANGED <<ctx, bins, calls, messages, orch>>

NextChange ==
  \/ OrchCheckGitHub
  \/ OrchRunGitHub
  \/ OrchCheckLicense
  \/ OrchRunLicense
  \/ ChangeSources

ChangeSpec == InitOrch /\ [][NextChange]_vars

(***************************************************************************)
(* Properties                                                              *)
(***************************************************************************)
GhName == Join(GH_TOKEN)

LicName == Join(LICENSE_KEY_ENV_VAR)

RunOps == {"GitHubAuthStep.run", "LicenseActivationStep.run"}

CheckOps == {"GitHubAuthStep.check", "LicenseActivationStep.check"}

\* the environment and the files are the ones the last operation saw: no
\* action of these specifications changes them
ReturnedNormally == last.raised = ""

TokenResolvable == Truthy(get_gh_token(environ, env_file))

KeyResolvable == Truthy(get_license_key(environ, env_file))

CcpMissing == ~Exists(bins, get_ccp_binary_path(ctx, bins))

MessagesOf(ms, methods) == { i \in 1..Len(ms) : ms[i].method \in methods }

TextsOf(ms, methods) == { ms[i].text : i \in MessagesOf(ms, methods) }

\* the status texts that are an object with a recognized tier and an expiry
\* flag that is absent, false or null
GoodStatusTexts ==
  { Obj(Member("\"tier\"", t)) \o <<"\n">> :
      t \in {"\"trial\"", "\"standard\"", "\"enterprise\""} }
  \cup { Obj(Member("\"tier\"", t) \o <<",", " ">> \o Member("\"is_expired\"", x)) :
           t \in {"\"trial\"", "\"enterprise\""}, x \in {"false", "null"} }
  \cup { Obj(Member("\"tier\"", "\"standard\"")) }

\* the status call completed with exit code 0 and printed such a text
GoodStatus(o) ==
  /\ o.raised = ""
  /\ o.returncode = 0
  /\ \/ o.stdout \in GoodStatusTexts
     \/ Strip(o.stdout) = <<>> /\ o.stderr \in GoodStatusTexts

\* the status texts that are not JSON, or JSON that is not an object
MalformedTexts ==
  { <<"not", " ", "licensed">>, <<"{">>, <<"oops">>,
    <<"[", "]">>, <<"null">>, <<"\"trial\"">> }

\* the failures of the status call that the specification lists
ListedFailure(o) ==
  \/ o.raised \in {"FileNotFoundError", "TimeoutExpired"}
  \/ o.raised = "" /\ o.returncode # 0
  \/ o.raised = "" /\ o.returncode = 0
       /\ (o.stdout \in MalformedTexts
           \/ (Strip(o.stdout) = <<>> /\ o.stderr \in MalformedTexts))

\* C1: whenever the environment variable is set to a non-empty string, each
\* resolver returns that string, whatever the .env file holds.
C1_EnvironmentFirst ==
  /\ (last.op = "get_gh_token" /\ Truthy(environ[GhName]))
        => (ReturnedNormally /\ last.result = environ[GhName])
  /\ (last.op = "get_license_key" /\ Truthy(environ[LicName]))
        => (ReturnedNormally /\ last.result = environ[LicName])

\* the environment and a line of the file give different values for GH_TOKEN
C1_Witness ==
  /\ last.op = "get_gh_token"
  /\ Truthy(environ[GhName])
  /\ env_file.exists
  /\ ScanGhToken(Split(env_file.content, "\n")) = Str(<<"a">>)
  /\ last.result = Str(<<"e", "1">>)

\* C2: run of either step returns normally for every credential state,
\* binary state and outcome of the subprocess call, and with a UI a failed
\* call is reported by a warning or error message.
C2_RunNeverRaises ==
  last.op \in RunOps =>
    /\ ReturnedNormally
    /\ (ctx.ui /\ calls # <<>>
          /\ ~(calls[1].outcome.raised = "" /\ calls[1].outcome.returncode = 0))
        => MessagesOf(messages, {"warning", "error"}) # {}

\* C3: check of either step (and is_license_valid) returns False, without
\* raising, for every listed failure of the status call.
C3_CheckNeverRaises ==
  (last.op \in CheckOps \cup {"is_license_valid"} /\ calls # <<>>
     /\ ListedFailure(calls[1].outcome))
    => (ReturnedNormally /\ last.result = PyFalse)

\* C4 as stated: LicenseActivationStep.check returns True iff a key is
\* resolvable and the status call succeeds with a recognized tier that is
\* not expired.
C4_CheckTrueIffValid ==
  last.op = "LicenseActivationStep.check" =>
    ((ReturnedNormally /\ last.result = PyTrue)
       <=> (KeyResolvable /\ ~CcpMissing /\ calls # <<>>
              /\ GoodStatus(calls[1].outcome)))

\* C4 amended: LicenseActivationStep.check returns True iff no key is
\* resolvable, or the binary exists and the status call exits 0 with a JSON
\* object whose tier is recognized and whose is_expired is absent or falsy.
C4_CheckTrueIffNoKeyOrValid ==
  last.op = "LicenseActivationStep.check" =>
    ((ReturnedNormally /\ last.result = PyTrue)
       <=> (~KeyResolvable
              \/ (~CcpMissing /\ calls # <<>> /\ GoodStatus(calls[1].outcome))))

\* a key is resolvable and the status reports a valid license: skip
C4_Witness ==
  /\ last.op = "LicenseActivationStep.check"
  /\ KeyResolvable
  /\ calls # <<>>
  /\ GoodStatus(calls[1].outcome)
  /\ last.result = PyTrue

\* C5: with no license key resolvable, check returns True without any
\* subprocess call, and in an orchestrator pass the license step is never
\* run, so that no activate call is made.
C5_NoKeySkipsLicense ==
  ~KeyResolvable =>
    /\ last.op = "LicenseActivationStep.check"
         => (ReturnedNormally /\ last.result = PyTrue /\ calls = <<>>)
    /\ last.op # "LicenseActivationStep.run"
    /\ "license_activation" \notin orch.ran
    /\ \A i \in 1..Len(calls) : calls[i].argv[2] # "activate"

\* a finished pass without a license key: the license step was skipped
C5_Witness ==
  /\ ~KeyResolvable
  /\ orch.i > Len(orch.steps)
  /\ orch.steps # <<>>
  /\ "license_activation" \in orch.skipped
  /\ "github_auth" \in orch.ran

\* C6: with a resolvable key, is_license_valid (and check) is True only for
\* an existing binary whose status call exits 0 with parsable JSON, a
\* recognized tier and no expiry, and returns False in every other case.
C6_ValidOnlyWhenStatusGood ==
  (\/ last.op = "is_license_valid"
   \/ last.op = "LicenseActivationStep.check" /\ KeyResolvable)
    => LET good == ~CcpMissing /\ calls # <<>> /\ GoodStatus(calls[1].outcome)
       IN  /\ (ReturnedNormally /\ last.result = PyTrue) => good
           /\ ~good => (ReturnedNormally /\ last.result = PyFalse)

\* C7: GitHubAuthStep.check returns True iff the gh auth status call
\* completes with exit code 0, and False for a non-zero exit code and for
\* any exception, whether or not a GH_TOKEN is resolvable.
C7_GhCheckIffExitZero ==
  last.op = "GitHubAuthStep.check" =>
    /\ ReturnedNormally
    /\ Len(calls) = 1
    /\ calls[1].argv = <<"gh", "auth", "status">>
    /\ last.result =
         Bool(calls[1].outcome.raised = "" /\ calls[1].outcome.returncode = 0)

\* authenticated although no token is resolvable
C7_Witness ==
  /\ last.op = "GitHubAuthStep.check"
  /\ ~TokenResolvable
  /\ calls[1].outcome.returncode = 0
  /\ calls[1].outcome.raised = ""
  /\ last.result = PyTrue

C9_MissingBinaryNoCall ==
  /\ (last.op = "GitHubAuthStep.run" /\ TokenResolvable /\ ~Exists(bins, "gh"))
       => /\ ReturnedNormally
          /\ calls = <<>>
          /\ ctx.ui => MessagesOf(messages, {"warning", "error"}) # {}
  /\ (last.op = "LicenseActivationStep.run" /\ KeyResolvable /\ CcpMissing)
       => /\ ReturnedNormally
          /\ calls = <<>>
          /\ ctx.ui => MessagesOf(messages, {"warning", "error"}) # {}

\* C9 amended: with a resolvable key and a missing ccp binary,
\* LicenseActivationStep.run makes no subprocess call and emits a warning;
\* GitHubAuthStep.run does not look for gh: with a resolvable token it makes
\* the one login call, which fails with FileNotFoundError, and emits one
\* error message; both return normally.
C9_MissingBinaryHandled ==
  /\ (last.op = "GitHubAuthStep.run" /\ TokenResolvable /\ ~Exists(bins, "gh"))
       => /\ ReturnedNormally
          /\ Len(calls) = 1
          /\ calls[1].argv = <<"gh", "auth", "login", "--with-token">>
          /\ calls[1].outcome.raised = "FileNotFoundError"
          /\ ctx.ui => /\ Cardinality(MessagesOf(messages, {"error"})) = 1
                       /\ MessagesOf(messages, {"warning", "success"}) = {}
  /\ (last.op = "LicenseActivationStep.run" /\ KeyResolvable /\ CcpMissing)
       => /\ ReturnedNormally
          /\ calls = <<>>
          /\ ctx.ui => /\ Cardinality(MessagesOf(messages, {"warning"})) = 1
                       /\ MessagesOf(messages, {"error", "success"}) = {}

\* the license step run with a key, a UI and no binary
C9_Witness ==
  /\ last.op = "LicenseActivationStep.run"
  /\ KeyResolvable
  /\ CcpMissing
  /\ ctx.ui
  /\ messages[1].method = "warning"

\* the warning and error texts a run can emit when the call exits non-zero
GhFailureTexts ==
  UNION { TextsOf(GitHubAuthStep_run(ctx, environ, env_file, o).messages,
                  {"warning", "error"}) :
            o \in { x \in ActionCompletions : x.returncode # 0 } }

LicenseFailureTexts ==
  UNION { TextsOf(LicenseActivationStep_run(ctx, environ, env_file, bins, o).messages,
                  {"warning", "error"}) :
            o \in { x \in ActionCompletions : x.returncode # 0 } }

TimedOut == calls # <<>> /\ calls[1].outcome.raised = "TimeoutExpired"

\* C10: when the login / activation call times out, run returns normally,
\* has made that one call only, emits no success message, and with a UI
\* emits a warning whose text is none of the texts of a non-zero exit.
C10_TimeoutDistinctWarning ==
  /\ (last.op = "GitHubAuthStep.run" /\ TimedOut)
       => /\ ReturnedNormally
          /\ Len(calls) = 1
          /\ MessagesOf(messages, {"success"}) = {}
          /\ ctx.ui => /\ TextsOf(messages, {"warning", "error"}) # {}
                       /\ TextsOf(messages, {"warning", "error"}) \cap GhFailureTexts = {}
  /\ (last.op = "LicenseActivationStep.run" /\ TimedOut)
       => /\ ReturnedNormally
          /\ Len(calls) = 1
          /\ MessagesOf(messages, {"success"}) = {}
          /\ ctx.ui => /\ TextsOf(messages, {"warning", "error"}) # {}
                       /\ TextsOf(messages, {"warning", "error"})
                            \cap LicenseFailureTexts = {}

\* the login timed out and the UI was told so
C10_Witness ==
  /\ last.op = "GitHubAuthStep.run"
  /\ TimedOut
  /\ ctx.ui
  /\ GhFailureTexts # {}
  /\ TextsOf(messages, {"error"}) = {"GitHub CLI authentication timed out"}

\* the one call of the last operation completed with exit code 0
ExitedZero ==
  calls # <<>> /\ calls[1].outcome.raised = "" /\ calls[1].outcome.returncode = 0

\* the one call of the last operation completed with another exit code
ExitedNonZero ==
  calls # <<>> /\ calls[1].outcome.raised = "" /\ calls[1].outcome.returncode # 0

\* C11: run with a resolvable credential (and an existing ccp binary) makes
\* exactly one login / activate call, which carries the resolved credential
\* (as standard input of gh auth login --with-token, as argument of
\* ccp activate <key> --json); with a UI it emits a success message iff the
\* call exits 0, and on a non-zero exit a failure message and no success.
C11_OneCallWithCredential ==
  /\ (last.op = "GitHubAuthStep.run" /\ TokenResolvable)
       => /\ Len(calls) = 1
          /\ calls[1].argv = <<"gh", "auth", "login", "--with-token">>
          /\ calls[1].input = get_gh_token(environ, env_file)
          /\ ctx.ui => /\ MessagesOf(messages, {"success"}) # {} <=> ExitedZero
                       /\ ExitedNonZero
                            => MessagesOf(messages, {"warning", "error"}) # {}
          /\ ~ctx.ui => messages = <<>>
  /\ (last.op = "LicenseActivationStep.run" /\ KeyResolvable /\ ~CcpMissing)
       => /\ Len(calls) = 1
          /\ calls[1].argv = << get_ccp_binary_path(ctx, bins), "activate",
                                Join(get_license_key(environ, env_file).v), "--json" >>
          /\ calls[1].input = None
          /\ ctx.ui => /\ MessagesOf(messages, {"success"}) # {} <=> ExitedZero
                       /\ ExitedNonZero
                            => MessagesOf(messages, {"warning", "error"}) # {}
          /\ ~ctx.ui => messages = <<>>

\* GH_TOKEN=a in the file, no environment variable, the login exits 0: the
\* login got "a" on its standard input and success was reported
C11_Witness ==
  /\ last.op = "GitHubAuthStep.run"
  /\ environ[GhName] = None
  /\ env_file = File(Unlines(<<GH_TOKEN \o <<"=", "a">>>>))
  /\ ExitedZero
  /\ calls[1].input = Str(<<"a">>)
  /\ TextsOf(messages, {"success"}) = {"GitHub CLI authenticated successfully"}

\* the lines of the .env file
FileLines == Split(env_file.content, "\n")

\* the lines whose trimmed content starts with k=
MatchingLines(k) ==
  { i \in 1..Len(FileLines) : StartsWith(Strip(FileLines[i]), k \o <<"=">>) }

\* the trimmed remainder of line i after k=
Remainder(k, i) == Strip(SliceFrom(Strip(FileLines[i]), Len(k) + 1))

Least(S) == CHOOSE i \in S : \A j \in S : i <= j

\* the value of the first matching line, absent when it is empty
FirstMatchValue(k) ==
  IF MatchingLines(k) = {} THEN None
  ELSE IF Remainder(k, Least(MatchingLines(k))) # <<>>
       THEN Str(Remainder(k, Least(MatchingLines(k))))
  ELSE None

\* the value of the first matching line that has a value
FirstValuedMatch(k) ==
  LET valued == { i \in MatchingLines(k) : Remainder(k, i) # <<>> }
  IN  IF valued = {} THEN None ELSE Str(Remainder(k, Least(valued)))

\* C12 as stated: with the environment variable unset or empty and the file
\* present, both resolvers return the value of the first line that starts
\* with KEY=, and absent when that value is empty, whatever follows.
C12_FirstMatchingLineOnly ==
  /\ (last.op = "get_gh_token" /\ ~Truthy(environ[GhName]) /\ env_file.exists)
       => (ReturnedNormally /\ last.result = FirstMatchValue(GH_TOKEN))
  /\ (last.op = "get_license_key" /\ ~Truthy(environ[LicName]) /\ env_file.exists)
       => (ReturnedNormally /\ last.result = FirstMatchValue(LICENSE_KEY_ENV_VAR))
  /\ (last.op = "get_license_key_from_env_file" /\ env_file.exists)
       => (ReturnedNormally /\ last.result = FirstMatchValue(LICENSE_KEY_ENV_VAR))

\* C12 amended: the license-key resolvers use the first matching line only
\* (absent when its value is empty); get_gh_token skips matching lines with
\* an empty value and returns the value of the first matching line that has
\* one.
C12_FirstMatchPerResolver ==
  /\ (last.op = "get_gh_token" /\ ~Truthy(environ[GhName]) /\ env_file.exists)
       => (ReturnedNormally /\ last.result = FirstValuedMatch(GH_TOKEN))
  /\ (last.op = "get_license_key" /\ ~Truthy(environ[LicName]) /\ env_file.exists)
       => (ReturnedNormally /\ last.result = FirstMatchValue(LICENSE_KEY_ENV_VAR))
  /\ (last.op = "get_license_key_from_env_file" /\ env_file.exists)
       => (ReturnedNormally /\ last.result = FirstMatchValue(LICENSE_KEY_ENV_VAR))

\* the key with an empty value, then the key with a value: absent
C12_Witness ==
  /\ last.op = "get_license_key"
  /\ ~Truthy(environ[LicName])
  /\ env_file = File(Unlines(<< LICENSE_KEY_ENV_VAR \o <<"=">>,
                                LICENSE_KEY_ENV_VAR \o <<"=", "a">> >>))
  /\ last.result = None

\* the .env file is missing or none of its lines defines k
NotDefined(k) == ~env_file.exists \/ MatchingLines(k) = {}

\* C13: with the environment variable unset or empty and the .env file
\* missing or without a line that defines the key, each resolver returns
\* None and does not raise.
C13_AbsenceIsNone ==
  /\ (last.op = "get_gh_token" /\ ~Truthy(environ[GhName]) /\ NotDefined(GH_TOKEN))
       => (ReturnedNormally /\ last.result = None)
  /\ (last.op = "get_license_key" /\ ~Truthy(environ[LicName])
        /\ NotDefined(LICENSE_KEY_ENV_VAR))
       => (ReturnedNormally /\ last.result = None)
  /\ (last.op = "get_license_key_from_env_file" /\ NotDefined(LICENSE_KEY_ENV_VAR))
       => (ReturnedNormally /\ last.result = None)

\* an empty environment variable and a file that mentions the key without
\* defining it
C13_Witness ==
  /\ last.op = "get_gh_token"
  /\ environ[GhName] = Str(<<>>)
  /\ env_file = File(Unlines(<< GH_TOKEN \o <<" ", "=", " ", "a">>,
                                <<"#">> \o GH_TOKEN \o <<"=", "a">> >>))
  /\ last.result = None

OverridePath == "/repo/.claude/bin/ccp"

DefaultPath == "/project/.claude/bin/ccp"

\* the override when local mode is set, the local repository is set and the
\* override file exists; the default otherwise
ExpectedCcpPath ==
  IF ctx.local_mode /\ ctx.local_repo_dir = "/repo" /\ OverridePath \in bins
  THEN OverridePath ELSE DefaultPath

\* C14: get_ccp_binary_path returns the override path iff local_mode is
\* set, local_repo_dir is set and the override exists, and the default path
\* (existing or not) otherwise; the status call and the activate call run
\* the binary at that path.
C14_BinaryLocation ==
  /\ last.op = "get_ccp_binary_path"
       => (ReturnedNormally /\ last.result = Path(ExpectedCcpPath))
  /\ last.op \in {"is_license_valid", "LicenseActivationStep.check",
                  "LicenseActivationStep.run"}
       => /\ \A i \in 1..Len(calls) : calls[i].argv[1] = ExpectedCcpPath
          /\ ExpectedCcpPath \notin bins => calls = <<>>

\* local mode with an existing override: the activation runs the override
C14_Witness ==
  /\ last.op = "LicenseActivationStep.run"
  /\ ctx.local_mode
  /\ bins = {OverridePath, DefaultPath}
  /\ Len(calls) = 1
  /\ calls[1].argv[1] = OverridePath
  /\ calls[1].argv[2] = "activate"

\* the lines of the claim that define k, each with the value it is to give
TrimmedShapes(k) ==
  { <<k \o <<"=", "a">>, <<"a">>>>,
    <<<<" ", " ">> \o k \o <<"=", "b", " ">>, <<"b">>>>,
    <<k \o <<"=", " ", "a", "\r">>, <<"a">>>> }

\* the line with whitespace between the key and the equals sign
SpacedKeyShape(k) == <<k \o <<" ", "=", " ", "a">>, <<"a">>>>

\* lines that say nothing about k: empty lines, comments, lines of another key
UnknownLines(k) ==
  {<<>>, <<"#">> \o k \o <<"=", "a">>}
  \cup (IF k = GH_TOKEN THEN KeyLines(LICENSE_KEY_ENV_VAR) ELSE KeyLines(GH_TOKEN))

\* the file holds the line once, among unknown lines only
OnlyDefinition(k, line) ==
  /\ env_file.exists
  /\ \E i \in 1..Len(FileLines) :
       /\ FileLines[i] = line
       /\ \A j \in 1..Len(FileLines) \ {i} : FileLines[j] \in UnknownLines(k)

\* the last operation resolved k from the file
ResolvedFromFile(k) ==
  \/ k = GH_TOKEN /\ last.op = "get_gh_token" /\ ~Truthy(environ[GhName])
  \/ k = LICENSE_KEY_ENV_VAR /\ last.op = "get_license_key"
       /\ ~Truthy(environ[LicName])
  \/ k = LICENSE_KEY_ENV_VAR /\ last.op = "get_license_key_from_env_file"

\* C15 as stated: unknown lines are ignored and whitespace around the key
\* and around the value is trimmed: KEY=value, "  KEY=value  ", "KEY= value"
\* and "KEY = value" all resolve to value.
C15_WhitespaceAroundKeyAndValue ==
  \A k \in {GH_TOKEN, LICENSE_KEY_ENV_VAR} :
    \A shape \in TrimmedShapes(k) \cup {SpacedKeyShape(k)} :
      (ResolvedFromFile(k) /\ OnlyDefinition(k, shape[1]))
        => (ReturnedNormally /\ last.result = Str(shape[2]))

\* C15 amended: unknown lines are ignored and whitespace before the key and
\* around the value is trimmed, so KEY=value, "  KEY=value  " and
\* "KEY= value" resolve to value; a line with whitespace between the key and
\* the equals sign ("KEY = value") does not define the key and resolves to
\* absent.
C15_WhitespaceAroundLineAndValue ==
  \A k \in {GH_TOKEN, LICENSE_KEY_ENV_VAR} :
    /\ \A shape \in TrimmedShapes(k) :
         (ResolvedFromFile(k) /\ OnlyDefinition(k, shape[1]))
           => (ReturnedNormally /\ last.result = Str(shape[2]))
    /\ (ResolvedFromFile(k) /\ OnlyDefinition(k, SpacedKeyShape(k)[1]))
         => (ReturnedNormally /\ last.result = None)

\* an unknown line, then the key indented and followed by a blank
C15_Witness ==
  /\ last.op = "get_license_key"
  /\ ~Truthy(environ[LicName])
  /\ env_file = File(Unlines(<< GH_TOKEN \o <<"=", "a">>,
                                <<" ", " ">> \o LICENSE_KEY_ENV_VAR \o <<"=", "b", " ">> >>))
  /\ last.result = Str(<<"b">>)

\* the objects that hold a recognized tier and nothing else
TierOnlyTexts ==
  { Obj(Member("\"tier\"", t)) :
      t \in {"\"trial\"", "\"standard\"", "\"enterprise\""} }

\* what the status call printed: its stdout, or its stderr when its stdout
\* is empty
PrintedStatus(o) == IF Strip(o.stdout) # <<>> THEN Strip(o.stdout) ELSE Strip(o.stderr)

\* C17: with a resolvable key, an existing binary and exit code 0, a status
\* object with a recognized tier and no is_expired field makes
\* is_license_valid True and check return True; the object is read from
\* stdout, or from stderr when stdout is empty.
C17_MissingExpiryIsValid ==
  (/\ \/ last.op = "is_license_valid"
      \/ last.op = "LicenseActivationStep.check" /\ KeyResolvable
   /\ ~CcpMissing
   /\ ExitedZero
   /\ PrintedStatus(calls[1].outcome) \in TierOnlyTexts)
    => (ReturnedNormally /\ last.result = PyTrue)

\* nothing on stdout, {"tier": "standard"} on stderr: skip the activation
C17_Witness ==
  /\ last.op = "LicenseActivationStep.check"
  /\ KeyResolvable
  /\ ExitedZero
  /\ calls[1].outcome.stdout = <<>>
  /\ calls[1].outcome.stderr = Obj(Member("\"tier\"", "\"standard\""))
  /\ last.result = PyTrue

\* the orchestrator takes the given phase of the given step in this step
Takes(step, phase) == AtStep(step, phase) /\ orch' # orch

\* C16: every lookup is made on the environment and the .env file as they
\* are when the operation is called: a run (or check) that follows a change
\* of the sources makes no call when no credential is resolvable any more,
\* and passes the credential that is resolvable now.
C16_NoCaching ==
  [][ /\ Takes("license_activation", "run")
        => IF ~KeyResolvable THEN calls' = <<>> /\ messages' = <<>>
           ELSE IF CcpMissing THEN calls' = <<>>
           ELSE /\ Len(calls') = 1
                /\ calls'[1].argv[3] = Join(get_license_key(environ, env_file).v)
      /\ Takes("github_auth", "run")
        => IF ~TokenResolvable THEN calls' = <<>>
           ELSE /\ Len(calls') = 1
                /\ calls'[1].input = get_gh_token(environ, env_file)
      /\ Takes("license_activation", "check")
        => IF ~KeyResolvable THEN calls' = <<>> /\ last'.result = PyTrue
           ELSE Len(calls') = (IF CcpMissing THEN 0 ELSE 1)
    ]_vars

\* the license step was run (check had found a key) after the key had been
\* removed: no call, no message
C16_Witness ==
  /\ last.op = "LicenseActivationStep.run"
  /\ ~KeyResolvable
  /\ ~CcpMissing
  /\ ctx.ui
  /\ "license_activation" \in orch.ran
  /\ calls = <<>>
  /\ messages = <<>>

====
